---- MODULE Spec2Model ----
(***************************************************************************)
(* Energy Price Projections: the backend price service (server.js) and the *)
(* state of the browser script that consumes its quotes.                   *)
(*                                                                         *)
(* Numbers are fixed-point integers in units of 1/10000 (74.50 is 745000). *)
(* NaN and undefined are two reserved integers outside the price range;    *)
(* every arithmetic or comparison operator below treats them as JavaScript *)
(* does.  Date.now() is the variable now, in milliseconds.                 *)
(***************************************************************************)
EXTENDS Integers, Sequences, FiniteSets, TLC

VARIABLES EIA_API_KEY, FRED_API_KEY, cache, now, ticks, received, reqs,
          currentSource, currentData, projectionHistory, currentDataSources,
          isUsingFallback, fetches, priceOf, alerted

\* The server process
serverVars == <<EIA_API_KEY, FRED_API_KEY, cache, now, ticks, received, reqs>>

\* The browser script: its five module-level variables, the fetchEnergyData
\* calls it has started, and two history variables (priceOf: the commodity
\* whose price request filled currentData; alerted: the last alert() shown)
clientVars == <<currentSource, currentData, projectionHistory, currentDataSources,
                isUsingFallback, fetches, priceOf, alerted>>

vars == <<serverVars, clientVars>>

----------------------------------------------------------------------------
(* Bounds of the model *)

MaxRequests == 2
MaxTicks == 2

\* fetchEnergyData calls started, projections recorded, in one page session
MaxFetches == 2
MaxProjections == 1

----------------------------------------------------------------------------
(* JavaScript values *)

NaN == -2000000000
Undefined == -2000000001
Null == [null |-> TRUE]

IsNumber(v) == v # NaN /\ v # Undefined

\* v > 0 in JavaScript: false for NaN and for undefined
GreaterThanZero(v) == IsNumber(v) /\ v > 0

\* Boolean(v) for a number-or-undefined v: 0, NaN and undefined are falsy
Truthy(v) == IsNumber(v) /\ v # 0

\* a || b
OrElse(a, b) == IF Truthy(a) THEN a ELSE b

\* v * (num / den), NaN-propagating (undefined converts to NaN)
Times(v, num, den) == IF IsNumber(v) THEN (v * num) \div den ELSE NaN

\* parseFloat of a provider field: a numeric string parses to its number,
\* a missing field or a non-numeric string (Dot) parses to NaN
Dot == -2000000002
parseFloat(raw) == IF raw = Undefined \/ raw = Dot THEN NaN ELSE raw

----------------------------------------------------------------------------
(* Cache (5 minute TTL) *)

CACHE_TTL == 5 * 60 * 1000

EIASeries == {"PET.RWTC.D", "NG.RNGWHHD.D", "COAL.PRICE"}
FREDSeries == {"PURANUSDM"}
OWIDIndicators == {"nuclear", "solar", "wind"}
YahooSymbols == {"CL=F", "BZ=F", "NG=F", "MTF=F"}

\* A cache key made of the provider's prefix alone
CacheKey_ProviderOnly(adapter, id) ==
    CASE adapter = "eia" -> <<adapter, "PET.RWTC.D">>
      [] adapter = "fred" -> <<adapter, "PURANUSDM">>
      [] adapter = "owid" -> <<adapter, "nuclear">>
      [] adapter = "yahoo" -> <<adapter, "CL=F">>

CacheKey(adapter, id) == <<adapter, id>>

CacheKeys == ({"eia"} \X EIASeries) \cup ({"fred"} \X FREDSeries)
             \cup ({"owid"} \X OWIDIndicators) \cup ({"yahoo"} \X YahooSymbols)

\* getCached with the expiry test off by one (<= for <)
getCached_Inclusive(key) ==
    LET item == cache[key] IN
    IF item # Null /\ now - item.timestamp <= CACHE_TTL THEN item.data ELSE Null

\* getCached that never finds an entry
getCached_Miss(key) == Null

getCached(key) ==
    LET item == cache[key] IN
    IF item # Null /\ now - item.timestamp < CACHE_TTL THEN item.data ELSE Null

\* setCache that keeps an entry it already has
setCache_KeepsOld(key, data) ==
    IF cache[key] # Null THEN cache
    ELSE [cache EXCEPT ![key] = [data |-> data, timestamp |-> now]]

setCache(key, data) == [cache EXCEPT ![key] = [data |-> data, timestamp |-> now]]

----------------------------------------------------------------------------
(* What a provider can answer to one outbound call *)

\* The price value a provider reports when it reports one
ProviderValues == {700000}

\* OWID yearly series of the USA entry: year -> per-technology fields
\* (Undefined where the dataset has no figure for that technology and year)
OwidFields(solar, wind, nuclear) ==
    [solar_electricity |-> solar, wind_electricity |-> wind,
     nuclear_electricity |-> nuclear]

OwidSeries ==
    { <<>>,
      (2023 :> OwidFields(250000, 300000, 320000)),
      (2022 :> OwidFields(250000, 300000, 320000))
        @@ (2023 :> OwidFields(Undefined, Undefined, Undefined)) }

YearString == (2022 :> "2022") @@ (2023 :> "2023")

\* neterr:    fetch() rejects
\* malformed: the body is not the JSON the adapter reads: response.json()
\*            rejects, or a property access on the parsed body throws
\* empty:     well-formed body with no result entry
\* noval:     a first result entry whose value field is missing or is not
\*            a numeric string
\* data:      a first result entry carrying a value
PriceResponses ==
    {[kind |-> "neterr"], [kind |-> "malformed"], [kind |-> "empty"],
     [kind |-> "noval"]}
    \cup {[kind |-> "data", value |-> v] : v \in ProviderValues}

OwidResponses ==
    {[kind |-> "neterr"], [kind |-> "malformed"], [kind |-> "empty"]}
    \cup {[kind |-> "data", USA |-> s] : s \in OwidSeries}

ProviderResponses(adapter) ==
    IF adapter = "owid" THEN OwidResponses ELSE PriceResponses

\* The responses on which fetch(), response.json() or a property access throws
Throws(resp) == resp.kind \in {"neterr", "malformed"}

----------------------------------------------------------------------------
(* Source adapters: the part of each adapter that runs once the outbound   *)
(* call has completed with response resp.  Null is "absent".               *)

PricePoint(value, date, source) == [value |-> value, date |-> date, source |-> source]

EIAEndpoints == {"PET.RWTC.D", "NG.RNGWHHD.D", "COAL.PRICE"}

\* An exception that leaves an async function (a rejected promise)
Raised == [raised |-> TRUE]

fetchEIAData(resp) ==
    IF Throws(resp) THEN Null
    ELSE CASE resp.kind = "empty" -> Null
           [] resp.kind = "noval" -> PricePoint(parseFloat(Undefined), "period", "EIA")
           [] resp.kind = "data" -> PricePoint(parseFloat(resp.value), "period", "EIA")

fetchFREDData(resp) ==
    IF Throws(resp) THEN Null
    ELSE CASE resp.kind = "empty" -> Null
           [] resp.kind = "noval" -> PricePoint(parseFloat(Dot), "period", "FRED")
           [] resp.kind = "data" -> PricePoint(parseFloat(resp.value), "period", "FRED")

\* fetchYahooFinance without its try/catch
fetchYahooFinance_NoCatch(resp) ==
    IF Throws(resp) THEN Raised
    ELSE CASE resp.kind = "empty" -> Null
           [] resp.kind = "noval" -> PricePoint(Undefined, "today", "Yahoo Finance")
           [] resp.kind = "data" -> PricePoint(resp.value, "today", "Yahoo Finance")

fetchYahooFinance(resp) ==
    IF Throws(resp) THEN Null
    ELSE CASE resp.kind = "empty" -> Null
           [] resp.kind = "noval" -> PricePoint(Undefined, "today", "Yahoo Finance")
           [] resp.kind = "data" -> PricePoint(resp.value, "today", "Yahoo Finance")

\* Object.keys(data.USA).filter(k => !isNaN(k)).sort().reverse()[0]
LatestYear(usa) ==
    IF DOMAIN usa = {} THEN Undefined
    ELSE CHOOSE y \in DOMAIN usa : \A z \in DOMAIN usa : z <= y

fetchOWIDData(resp) ==
    IF Throws(resp) THEN Null
    ELSE IF resp.kind = "empty" THEN Null
    ELSE LET latestYear == LatestYear(resp.USA)
             usaData == IF latestYear = Undefined
                        THEN OwidFields(Undefined, Undefined, Undefined)
                        ELSE resp.USA[latestYear]
         IN [solar_lcoe |-> OrElse(usaData.solar_electricity, 280000),
             wind_lcoe |-> OrElse(usaData.wind_electricity, 310000),
             nuclear_lcoe |-> OrElse(usaData.nuclear_electricity, 330000),
             date |-> IF latestYear = Undefined THEN "thisYear"
                      ELSE YearString[latestYear],
             source |-> "Our World in Data"]

AdapterResult(adapter, resp) ==
    CASE adapter = "eia" -> fetchEIAData(resp)
      [] adapter = "fred" -> fetchFREDData(resp)
      [] adapter = "owid" -> fetchOWIDData(resp)
      [] adapter = "yahoo" -> fetchYahooFinance(resp)

\* History field: the record an adapter built is marked with the series the
\* outbound call asked the provider for.  The program's records carry no
\* such field and nothing the program does reads it.
Answering(result, id) ==
    IF result = Null \/ result = Raised THEN result
    ELSE [f \in DOMAIN result \cup {"series"} |->
             IF f = "series" THEN id ELSE result[f]]

\* The adapters without their credential guard
CredentialMissing_Skipped(adapter) == FALSE

\* Whether the adapter gives up before its cache lookup
CredentialMissing(adapter) ==
    \/ adapter = "eia" /\ ~EIA_API_KEY
    \/ adapter = "fred" /\ ~FRED_API_KEY

----------------------------------------------------------------------------
(* Fallback data *)

Sources == {"oil", "natural-gas", "nuclear", "solar", "renewables", "coal"}

\* a :source path parameter that is none of the six keys
UnknownSource == "hydrogen"

FallbackEntry(us, world, usUnit, worldUnit) ==
    [us |-> us, world |-> world, usUnit |-> usUnit, worldUnit |-> worldUnit]

fallbackPrices ==
    ("oil" :> FallbackEntry(745000, 788000, "/barrel", "/barrel"))
    @@ ("natural-gas" :> FallbackEntry(31500, 124000, "/MMBtu", "/MMBtu"))
    @@ ("nuclear" :> FallbackEntry(310000, 350000, "/MWh", "/MWh"))
    @@ ("solar" :> FallbackEntry(280000, 320000, "/MWh", "/MWh"))
    @@ ("renewables" :> FallbackEntry(310000, 360000, "/MWh", "/MWh"))
    @@ ("coal" :> FallbackEntry(1400000, 1200000, "/short ton", "/metric ton"))

\* getFallbackData with the us and world columns exchanged
getFallbackData_Swapped(source) ==
    LET entry == IF source \in DOMAIN fallbackPrices THEN fallbackPrices[source]
                 ELSE FallbackEntry(Undefined, Undefined, "undefined", "undefined")
    IN [us |-> entry.world, world |-> entry.us,
        usUnit |-> entry.usUnit, worldUnit |-> entry.worldUnit,
        date |-> "today",
        source |-> "Estimated (API keys not configured)",
        isFallback |-> TRUE]

\* getFallbackData with the oil entry for a key that is not in the table
getFallbackData_OilDefault(source) ==
    LET entry == IF source \in DOMAIN fallbackPrices THEN fallbackPrices[source]
                 ELSE fallbackPrices["oil"]
    IN [us |-> entry.us, world |-> entry.world,
        usUnit |-> entry.usUnit, worldUnit |-> entry.worldUnit,
        date |-> "today",
        source |-> "Estimated (API keys not configured)",
        isFallback |-> TRUE]

\* ...fallbackPrices[source] spreads nothing when the key is not in the table
getFallbackData(source) ==
    LET entry == IF source \in DOMAIN fallbackPrices THEN fallbackPrices[source]
                 ELSE FallbackEntry(Undefined, Undefined, "undefined", "undefined")
    IN [us |-> entry.us, world |-> entry.world,
        usUnit |-> entry.usUnit, worldUnit |-> entry.worldUnit,
        date |-> "today",
        source |-> "Estimated (API keys not configured)",
        isFallback |-> TRUE]

\* The browser script's own table, used when the price request fails
clientFallbackPrices ==
    ("oil" :> [us |-> 745000, world |-> 788000])
    @@ ("natural-gas" :> [us |-> 31500, world |-> 124000])
    @@ ("nuclear" :> [us |-> 310000, world |-> 350000])
    @@ ("solar" :> [us |-> 280000, world |-> 320000])
    @@ ("renewables" :> [us |-> 310000, world |-> 360000])
    @@ ("coal" :> [us |-> 1400000, world |-> 1200000])

\* fallbackData as updateWithFallbackData(source) hands it to the display:
\* fallbackPrices[source] || fallbackPrices.oil
updateWithFallbackData(source) ==
    LET prices == IF source \in DOMAIN clientFallbackPrices
                  THEN clientFallbackPrices[source]
                  ELSE clientFallbackPrices["oil"]
    IN [us |-> [price |-> prices.us, date |-> "today", source |-> "Fallback"],
        world |-> [price |-> prices.world, date |-> "today", source |-> "Fallback"]]

----------------------------------------------------------------------------
(* GET /api/prices/:source *)

Call(adapter, id) == [adapter |-> adapter, id |-> id]

\* The adapter calls the handler awaits, in order, for each source
Calls(source) ==
    CASE source = "oil" ->
           <<Call("eia", "PET.RWTC.D"), Call("yahoo", "CL=F"), Call("yahoo", "BZ=F")>>
      [] source = "natural-gas" ->
           <<Call("eia", "NG.RNGWHHD.D"), Call("yahoo", "NG=F")>>
      [] source = "nuclear" ->
           <<Call("owid", "nuclear"), Call("fred", "PURANUSDM")>>
      [] source = "solar" -> <<Call("owid", "solar")>>
      [] source = "renewables" -> <<Call("owid", "wind")>>
      [] source = "coal" ->
           <<Call("eia", "COAL.PRICE"), Call("yahoo", "MTF=F")>>
      [] OTHER -> <<>>

CopyOf(r) == PricePoint(r.value, r.date, r.source)

\* usPrice with the Yahoo result preferred to the EIA result
usPrice_YahooFirst(source, res) ==
    CASE source = "oil" ->
           IF res[2] # Null THEN CopyOf(res[2])
           ELSE IF res[1] # Null THEN CopyOf(res[1]) ELSE Null
      [] source = "natural-gas" ->
           IF res[2] # Null THEN CopyOf(res[2])
           ELSE IF res[1] # Null THEN CopyOf(res[1]) ELSE Null
      [] source = "nuclear" ->
           IF res[1] # Null
           THEN PricePoint(res[1].nuclear_lcoe, res[1].date, res[1].source)
           ELSE Null
      [] source = "solar" ->
           IF res[1] # Null
           THEN PricePoint(res[1].solar_lcoe, res[1].date, res[1].source)
           ELSE Null
      [] source = "renewables" ->
           IF res[1] # Null
           THEN PricePoint(res[1].wind_lcoe, res[1].date, res[1].source)
           ELSE Null
      [] source = "coal" -> IF res[1] # Null THEN CopyOf(res[1]) ELSE Null
      [] OTHER -> Null

\* usPrice after the switch, given the adapter results res (in call order)
usPrice(source, res) ==
    CASE source = "oil" ->
           IF res[1] # Null THEN CopyOf(res[1])
           ELSE IF res[2] # Null THEN CopyOf(res[2]) ELSE Null
      [] source = "natural-gas" ->
           IF res[1] # Null THEN CopyOf(res[1])
           ELSE IF res[2] # Null THEN CopyOf(res[2]) ELSE Null
      [] source = "nuclear" ->
           IF res[1] # Null
           THEN PricePoint(res[1].nuclear_lcoe, res[1].date, res[1].source)
           ELSE Null
      [] source = "solar" ->
           IF res[1] # Null
           THEN PricePoint(res[1].solar_lcoe, res[1].date, res[1].source)
           ELSE Null
      [] source = "renewables" ->
           IF res[1] # Null
           THEN PricePoint(res[1].wind_lcoe, res[1].date, res[1].source)
           ELSE Null
      [] source = "coal" -> IF res[1] # Null THEN CopyOf(res[1]) ELSE Null
      [] OTHER -> Null

\* worldPrice with the natural-gas world price at 3 times the US price
worldPrice_Times3(source, res) ==
    CASE source = "oil" -> IF res[3] # Null THEN CopyOf(res[3]) ELSE Null
      [] source = "natural-gas" ->
           LET us == usPrice(source, res) IN
           IF us # Null
           THEN PricePoint(Times(us.value, 3, 1), us.date, "Calculated from US price")
           ELSE Null
      [] source = "nuclear" ->
           IF res[1] # Null
           THEN PricePoint(Times(res[1].nuclear_lcoe, 11, 10), res[1].date, res[1].source)
           ELSE Null
      [] source = "solar" ->
           IF res[1] # Null
           THEN PricePoint(Times(res[1].solar_lcoe, 115, 100), res[1].date, res[1].source)
           ELSE Null
      [] source = "renewables" ->
           IF res[1] # Null
           THEN PricePoint(Times(res[1].wind_lcoe, 115, 100), res[1].date, res[1].source)
           ELSE Null
      [] source = "coal" -> IF res[2] # Null THEN CopyOf(res[2]) ELSE Null
      [] OTHER -> Null

\* worldPrice that derives the natural-gas world price from the table's US
\* price when no adapter resolved the us slot
worldPrice_FromFallbackUS(source, res) ==
    CASE source = "oil" -> IF res[3] # Null THEN CopyOf(res[3]) ELSE Null
      [] source = "natural-gas" ->
           LET us == usPrice(source, res) IN
           IF us # Null
           THEN PricePoint(Times(us.value, 35, 10), us.date, "Calculated from US price")
           ELSE PricePoint(Times(getFallbackData(source).us, 35, 10), "today",
                           "Calculated from US price")
      [] source = "nuclear" ->
           IF res[1] # Null
           THEN PricePoint(Times(res[1].nuclear_lcoe, 11, 10), res[1].date, res[1].source)
           ELSE Null
      [] source = "solar" ->
           IF res[1] # Null
           THEN PricePoint(Times(res[1].solar_lcoe, 115, 100), res[1].date, res[1].source)
           ELSE Null
      [] source = "renewables" ->
           IF res[1] # Null
           THEN PricePoint(Times(res[1].wind_lcoe, 115, 100), res[1].date, res[1].source)
           ELSE Null
      [] source = "coal" -> IF res[2] # Null THEN CopyOf(res[2]) ELSE Null
      [] OTHER -> Null

\* worldPrice after the switch
worldPrice(source, res) ==
    CASE source = "oil" -> IF res[3] # Null THEN CopyOf(res[3]) ELSE Null
      [] source = "natural-gas" ->
           LET us == usPrice(source, res) IN
           IF us # Null
           THEN PricePoint(Times(us.value, 35, 10), us.date, "Calculated from US price")
           ELSE Null
      [] source = "nuclear" ->
           IF res[1] # Null
           THEN PricePoint(Times(res[1].nuclear_lcoe, 11, 10), res[1].date, res[1].source)
           ELSE Null
      [] source = "solar" ->
           IF res[1] # Null
           THEN PricePoint(Times(res[1].solar_lcoe, 115, 100), res[1].date, res[1].source)
           ELSE Null
      [] source = "renewables" ->
           IF res[1] # Null
           THEN PricePoint(Times(res[1].wind_lcoe, 115, 100), res[1].date, res[1].source)
           ELSE Null
      [] source = "coal" -> IF res[2] # Null THEN CopyOf(res[2]) ELSE Null
      [] OTHER -> Null

\* the sources list after the switch
sources(source, res) ==
    CASE source = "oil" ->
           (IF res[1] # Null THEN <<"EIA">>
            ELSE IF res[2] # Null THEN <<"Yahoo Finance">> ELSE <<>>)
           \o (IF res[3] # Null THEN <<"Yahoo Finance (Brent)">> ELSE <<>>)
      [] source = "natural-gas" ->
           IF res[1] # Null THEN <<"EIA">>
           ELSE IF res[2] # Null THEN <<"Yahoo Finance">> ELSE <<>>
      [] source = "nuclear" ->
           (IF res[1] # Null THEN <<"Our World in Data">> ELSE <<>>)
           \o (IF res[2] # Null THEN <<"FRED">> ELSE <<>>)
      [] source = "solar" ->
           IF res[1] # Null THEN <<"Our World in Data">> ELSE <<>>
      [] source = "renewables" ->
           IF res[1] # Null THEN <<"Our World in Data">> ELSE <<>>
      [] source = "coal" ->
           (IF res[1] # Null THEN <<"EIA">> ELSE <<>>)
           \o (IF res[2] # Null THEN <<"Yahoo Finance">> ELSE <<>>)
      [] OTHER -> <<>>

\* The response with isFallback computed with || for &&
NormalResponse_EitherSlot(source, res) ==
    LET fallback == getFallbackData(source)
        us == usPrice(source, res)
        world == worldPrice(source, res)
        srcs == sources(source, res)
    IN [status |-> 200,
        source |-> source,
        us |-> IF us # Null THEN us
               ELSE PricePoint(fallback.us, fallback.date, fallback.source),
        world |-> IF world # Null THEN world
                  ELSE PricePoint(fallback.world, fallback.date, fallback.source),
        units |-> [us |-> fallback.usUnit, world |-> fallback.worldUnit],
        dataSources |-> IF Len(srcs) > 0 THEN srcs ELSE <<"Fallback estimates">>,
        isFallback |-> (us = Null \/ world = Null)]

\* The response with the us unit label in both unit fields
NormalResponse_UsUnitTwice(source, res) ==
    LET fallback == getFallbackData(source)
        us == usPrice(source, res)
        world == worldPrice(source, res)
        srcs == sources(source, res)
    IN [status |-> 200,
        source |-> source,
        us |-> IF us # Null THEN us
               ELSE PricePoint(fallback.us, fallback.date, fallback.source),
        world |-> IF world # Null THEN world
                  ELSE PricePoint(fallback.world, fallback.date, fallback.source),
        units |-> [us |-> fallback.usUnit, world |-> fallback.usUnit],
        dataSources |-> IF Len(srcs) > 0 THEN srcs ELSE <<"Fallback estimates">>,
        isFallback |-> (us = Null /\ world = Null)]

\* The response that takes both slots from the table when either is unresolved
NormalResponse_AllOrNothing(source, res) ==
    LET fallback == getFallbackData(source)
        us == usPrice(source, res)
        world == worldPrice(source, res)
        srcs == sources(source, res)
        live == us # Null /\ world # Null
    IN [status |-> 200,
        source |-> source,
        us |-> IF live THEN us
               ELSE PricePoint(fallback.us, fallback.date, fallback.source),
        world |-> IF live THEN world
                  ELSE PricePoint(fallback.world, fallback.date, fallback.source),
        units |-> [us |-> fallback.usUnit, world |-> fallback.worldUnit],
        dataSources |-> IF Len(srcs) > 0 THEN srcs ELSE <<"Fallback estimates">>,
        isFallback |-> (us = Null /\ world = Null)]

\* res.json(response) at the end of the try block
NormalResponse(source, res) ==
    LET fallback == getFallbackData(source)
        us == usPrice(source, res)
        world == worldPrice(source, res)
        srcs == sources(source, res)
    IN [status |-> 200,
        source |-> source,
        us |-> IF us # Null THEN us
               ELSE PricePoint(fallback.us, fallback.date, fallback.source),
        world |-> IF world # Null THEN world
                  ELSE PricePoint(fallback.world, fallback.date, fallback.source),
        units |-> [us |-> fallback.usUnit, world |-> fallback.worldUnit],
        dataSources |-> IF Len(srcs) > 0 THEN srcs ELSE <<"Fallback estimates">>,
        isFallback |-> (us = Null /\ world = Null)]

\* The catch block answering with res.status(500)
ErrorResponse_Status500(source, message) ==
    LET fallback == getFallbackData(source)
    IN [status |-> 500,
        source |-> source,
        us |-> PricePoint(fallback.us, fallback.date, "Fallback"),
        world |-> PricePoint(fallback.world, fallback.date, "Fallback"),
        units |-> [us |-> fallback.usUnit, world |-> fallback.worldUnit],
        dataSources |-> <<"Fallback estimates">>,
        isFallback |-> TRUE,
        error |-> message]

\* The catch block labelling its PricePoints with the table's source label
ErrorResponse_TableLabel(source, message) ==
    LET fallback == getFallbackData(source)
    IN [status |-> 200,
        source |-> source,
        us |-> PricePoint(fallback.us, fallback.date, fallback.source),
        world |-> PricePoint(fallback.world, fallback.date, fallback.source),
        units |-> [us |-> fallback.usUnit, world |-> fallback.worldUnit],
        dataSources |-> <<"Fallback estimates">>,
        isFallback |-> TRUE,
        error |-> message]

\* res.json({...}) in the catch block
ErrorResponse(source, message) ==
    LET fallback == getFallbackData(source)
    IN [status |-> 200,
        source |-> source,
        us |-> PricePoint(fallback.us, fallback.date, "Fallback"),
        world |-> PricePoint(fallback.world, fallback.date, "Fallback"),
        units |-> [us |-> fallback.usUnit, world |-> fallback.worldUnit],
        dataSources |-> <<"Fallback estimates">>,
        isFallback |-> TRUE,
        error |-> message]

----------------------------------------------------------------------------
(* The quotes a price request can be answered with *)

\* What one adapter call can return to the handler, the adapters in missing
\* being those whose credential is not configured
AdapterOutcomes(adapter, missing) ==
    IF adapter \in missing THEN {Null}
    ELSE {Null} \cup ({AdapterResult(adapter, resp) :
                          resp \in ProviderResponses(adapter)} \ {Raised})

\* The results the handler can hold, in call order, when it builds its response
ResultTuples(source, missing) ==
    LET calls == Calls(source)
        all == UNION {AdapterOutcomes(calls[i].adapter, missing) : i \in 1..Len(calls)}
    IN {res \in [1..Len(calls) -> all] :
           \A i \in 1..Len(calls) :
               res[i] \in AdapterOutcomes(calls[i].adapter, missing)}

\* The bodies GET /api/prices/:source can send, as triples
\* <<missing credentials, source, body>>
QuotesWhen ==
    UNION {{<<missing, source, NormalResponse(source, res)>> :
                res \in ResultTuples(source, missing)}
           \cup {<<missing, source, ErrorResponse(source, "internal error")>>} :
           missing \in SUBSET {"eia", "fred"}, source \in Sources}

AllQuotes == {t[3] : t \in QuotesWhen}

Quotes(source) ==
    LET missing == {a \in {"eia", "fred"} : CredentialMissing(a)}
    IN {t[3] : t \in {u \in QuotesWhen : u[1] = missing /\ u[2] = source}}

----------------------------------------------------------------------------
(* The browser script: configuration and pure functions *)

\* null where the script holds a number, a commodity key, a string
JSNull == -2000000003
NoSource == "null"

\* JSON.stringify on the server, response.json() in the browser: NaN is sent
\* as null; a field that is undefined is not sent and reads as undefined
FromWire(v) == IF v = NaN THEN JSNull ELSE v

\* !price: undefined, null, NaN and 0 are falsy
Falsy(v) == v = Undefined \/ v = JSNull \/ v = NaN \/ v = 0

\* CONFIG.sources; elasticity is in hundredths (0.4 is 40)
ConfigEntry(fullName, elasticity, usUnit, worldUnit) ==
    [fullName |-> fullName, elasticity |-> elasticity,
     usUnit |-> usUnit, worldUnit |-> worldUnit]

CONFIG ==
    ("oil" :> ConfigEntry("Crude Oil (WTI)", 40, "/barrel", "/barrel"))
    @@ ("natural-gas" :> ConfigEntry("Natural Gas (Henry Hub)", 25, "/MMBtu", "/MMBtu"))
    @@ ("nuclear" :> ConfigEntry("Nuclear Energy (Uranium)", 15, "/MWh", "/MWh"))
    @@ ("solar" :> ConfigEntry("Solar PV", 10, "/MWh", "/MWh"))
    @@ ("renewables" :> ConfigEntry("Wind & Other Renewables", 12, "/MWh", "/MWh"))
    @@ ("coal" :> ConfigEntry("Thermal Coal", 35, "/short ton", "/metric ton"))

\* factors[source] || 1.0, in tenths (1.2 is 12)
factors ==
    ("oil" :> 12) @@ ("natural-gas" :> 11) @@ ("nuclear" :> 8)
    @@ ("solar" :> 6) @@ ("renewables" :> 7) @@ ("coal" :> 10)

getSupplyConstraintFactor(source) ==
    IF source \in DOMAIN factors THEN OrElse(factors[source], 10) ELSE 10

\* formatDateForDisplay: the date in the en-US short form, 'N/A' without one
formatDateForDisplay(dateStr) ==
    IF dateStr = "undefined" \/ dateStr = "" THEN "N/A" ELSE "en-US " \o dateStr

\* The projection's results are exact fractions n / d with d > 0; the
\* script computes them in double precision, within rounding of these
\* (kept in lowest terms, so equal numbers are equal records)
RECURSIVE GCD(_, _)
GCD(a, b) == IF b = 0 THEN a ELSE GCD(b, a % b)

Abs(k) == IF k < 0 THEN -k ELSE k

Frac(n, d) ==
    LET g == GCD(Abs(n), d) IN [n |-> n \div g, d |-> d \div g]

Whole(k) == [n |-> k, d |-> 1]

\* The price change with the elasticity multiplied instead of divided by
priceIncrease_TimesElasticity(usageIncrease, elasticity, supplyConstraintFactor) ==
    Frac(usageIncrease * elasticity * supplyConstraintFactor, 1000)

\* The price change clamped at zero
priceIncrease_Clamped(usageIncrease, elasticity, supplyConstraintFactor) ==
    IF usageIncrease < 0 THEN Whole(0)
    ELSE Frac(usageIncrease * supplyConstraintFactor * 10, elasticity)

\* usageIncrease in whole percents, elasticity in hundredths, factor in tenths
\* (usageIncrease / 100) * (1 / elasticity) * supplyConstraintFactor * 100
priceIncrease(usageIncrease, elasticity, supplyConstraintFactor) ==
    Frac(usageIncrease * supplyConstraintFactor * 10, elasticity)

\* The new price without the current price added: currentPrice * priceIncrease / 100
newPrice_ChangeOnly(currentPrice, increase) ==
    LET g == GCD(Abs(currentPrice), 100 * increase.d)
    IN Frac((currentPrice \div g) * increase.n, (100 * increase.d) \div g)

\* currentPrice * (1 + priceIncrease / 100)
\* (common factors are divided out before the product is formed)
newPrice(currentPrice, increase) ==
    LET g == GCD(Abs(currentPrice), 100 * increase.d)
    IN Frac((currentPrice \div g) * (100 * increase.d + increase.n),
            (100 * increase.d) \div g)

\* What the user can have typed into a usage-increase field (Dot: nothing
\* that parses as a number), in whole percents
UsageInputs == {-10, 0, 10, Dot}

Regions == {"us", "world"}

\* projectionData, the record calculateProjection stores (its timestamp
\* left out), for the text input of the region's usage field
projectionData(region, input) ==
    LET sourceConfig == CONFIG[currentSource]
        usageIncrease == OrElse(parseFloat(input), 0)
        currentPrice == parseFloat(currentData[region].price)
        increase == priceIncrease(usageIncrease, sourceConfig.elasticity,
                                  getSupplyConstraintFactor(currentSource))
    IN [region |-> IF region = "us" THEN "United States" ELSE "World",
        source |-> sourceConfig.fullName,
        currentPrice |-> currentPrice,
        usageIncrease |-> usageIncrease,
        priceIncrease |-> increase,
        newPrice |-> newPrice(currentPrice, increase),
        unit |-> IF region = "us" THEN sourceConfig.usUnit ELSE sourceConfig.worldUnit,
        dataSources |-> currentDataSources,
        isLiveData |-> ~isUsingFallback,
        priceSource |-> currentData[region].source]

\* The script's variables when the page has loaded
ClientInit ==
    /\ currentSource = NoSource
    /\ currentData = [us |-> [price |-> JSNull, date |-> "null"],
                      world |-> [price |-> JSNull, date |-> "null"]]
    /\ projectionHistory = <<>>
    /\ currentDataSources = <<>>
    /\ isUsingFallback = FALSE
    /\ fetches = [started |-> 0, pending |-> [source \in Sources |-> 0]]
    /\ priceOf = NoSource
    /\ alerted = ""

----------------------------------------------------------------------------
(* State *)

\* The handler runs for at most two requests at a time
RequestIds == {1, 2}

Never == -1

\* A request slot: pc is the handler's position
\*   idle   no request was in this slot yet
\*   call   between awaits, about to call the next adapter or to respond
\*   fetch  awaiting the outbound call of the current adapter
\*   hung   awaiting an outbound call that never settles
\*   done   response sent (the slot is free for the next request)
\* issuedAt is Date.now() when the outbound call being awaited was issued
Idle == [source |-> "", pc |-> "idle", results |-> <<>>, issuedAt |-> Never,
         response |-> Null]

\* Date.now() advances by these steps in turn: to the last millisecond
\* before an entry stored at 0 expires, then to the millisecond it expires
TimeSteps == <<CACHE_TTL - 1, 1>>

\* No commodity consults both providers that need a credential (EIA: oil,
\* natural-gas, coal; FRED: nuclear), so the two credentials are taken to be
\* configured, or missing, together
Init ==
    /\ EIA_API_KEY \in BOOLEAN
    /\ FRED_API_KEY = EIA_API_KEY
    /\ cache = [k \in CacheKeys |-> Null]
    /\ now = 0
    /\ ticks = 0
    /\ received = 0
    /\ reqs = [r \in RequestIds |-> Idle]
    /\ ClientInit

CurrentCall(q) == Calls(q.source)[Len(q.results) + 1]

CurrentKey(q) == CacheKey(CurrentCall(q).adapter, CurrentCall(q).id)

HasNextCall(q) == Len(q.results) < Len(Calls(q.source))

Return(q, result) ==
    [q EXCEPT !.results = Append(@, result), !.pc = "call", !.issuedAt = Never]

\* The cache keys the handler reads and writes for a source
KeysOf(source) ==
    {CacheKey(Calls(source)[i].adapter, Calls(source)[i].id) :
        i \in 1..Len(Calls(source))}

\* Requests for different commodities read and write disjoint cache keys and
\* share no other state, so a behaviour follows one commodity at a time:
\* a request is taken up when no slot and no cache entry belongs to another
Independent(source) ==
    /\ \A q \in RequestIds : reqs[q].pc \notin {"idle", "done"} => reqs[q].source = source
    /\ \A k \in CacheKeys : cache[k] # Null => k \in KeysOf(source)

----------------------------------------------------------------------------
(* Actions *)

\* A GET /api/prices/:source request arrives
Receive(r, source) ==
    /\ received < MaxRequests
    /\ reqs[r].pc \in {"idle", "done"}
    /\ Independent(source)
    /\ received' = received + 1
    /\ reqs' = [reqs EXCEPT ![r] = [Idle EXCEPT !.source = source, !.pc = "call"]]
    /\ UNCHANGED <<clientVars, EIA_API_KEY, FRED_API_KEY, cache, now, ticks>>

\* The handler calls its next adapter, which runs up to its first await:
\* credential check, cache lookup, endpoint lookup, then fetch(url)
AdapterBegin(r) ==
    LET q == reqs[r] IN
    /\ q.pc = "call"
    /\ HasNextCall(q)
    /\ LET c == CurrentCall(q)
           key == CurrentKey(q)
           cached == getCached(key)
       IN IF CredentialMissing(c.adapter)
          THEN reqs' = [reqs EXCEPT ![r] = Return(q, Null)]
          ELSE IF cached # Null
          THEN reqs' = [reqs EXCEPT ![r] = Return(q, cached)]
          ELSE IF c.adapter = "eia" /\ c.id \notin EIAEndpoints
          THEN reqs' = [reqs EXCEPT ![r] = Return(q, Null)]
          ELSE reqs' = [reqs EXCEPT ![r].pc = "fetch", ![r].issuedAt = now]
    /\ UNCHANGED <<clientVars, EIA_API_KEY, FRED_API_KEY, cache, now, ticks, received>>

\* FetchComplete that stores the adapter's result even when it is absent
FetchComplete_CachesAbsent(r, resp) ==
    LET q == reqs[r] IN
    /\ q.pc = "fetch"
    /\ resp \in ProviderResponses(CurrentCall(q).adapter)
    /\ LET result == Answering(AdapterResult(CurrentCall(q).adapter, resp),
                               CurrentCall(q).id)
       IN IF result = Raised
          THEN /\ reqs' = [reqs EXCEPT
                    ![r].response = ErrorResponse(q.source, "adapter error"),
                    ![r].pc = "done", ![r].issuedAt = Never]
               /\ UNCHANGED cache
          ELSE /\ cache' = setCache(CurrentKey(q), result)
               /\ reqs' = [reqs EXCEPT ![r] = Return(q, result)]
    /\ UNCHANGED <<clientVars, EIA_API_KEY, FRED_API_KEY, now, ticks, received>>

\* The outbound call settles with resp; the adapter runs to its return.
\* A result that is an exception takes the handler to its catch block.
FetchComplete(r, resp) ==
    LET q == reqs[r] IN
    /\ q.pc = "fetch"
    /\ resp \in ProviderResponses(CurrentCall(q).adapter)
    /\ LET result == Answering(AdapterResult(CurrentCall(q).adapter, resp),
                               CurrentCall(q).id)
       IN IF result = Raised
          THEN /\ reqs' = [reqs EXCEPT
                    ![r].response = ErrorResponse(q.source, "adapter error"),
                    ![r].pc = "done", ![r].issuedAt = Never]
               /\ UNCHANGED cache
          ELSE /\ cache' = IF result # Null
                           THEN setCache(CurrentKey(q), result) ELSE cache
               /\ reqs' = [reqs EXCEPT ![r] = Return(q, result)]
    /\ UNCHANGED <<clientVars, EIA_API_KEY, FRED_API_KEY, now, ticks, received>>

\* The outbound call never settles: fetch(url) is given no timeout.  Nothing
\* the handler holds is read again, so the slot keeps only its source.
FetchHang(r) ==
    /\ reqs[r].pc = "fetch"
    /\ reqs' = [reqs EXCEPT ![r] = [Idle EXCEPT !.source = reqs[r].source,
                                                !.pc = "hung"]]
    /\ UNCHANGED <<clientVars, EIA_API_KEY, FRED_API_KEY, cache, now, ticks, received>>

\* All adapters have returned: build the response and send it
Respond(r) ==
    LET q == reqs[r] IN
    /\ q.pc = "call"
    /\ ~HasNextCall(q)
    /\ reqs' = [reqs EXCEPT ![r].response = NormalResponse(q.source, q.results),
                            ![r].pc = "done"]
    /\ UNCHANGED <<clientVars, EIA_API_KEY, FRED_API_KEY, cache, now, ticks, received>>

\* An exception is raised in the synchronous tail of the try block (building,
\* logging or sending the response): the catch block answers
HandlerThrow(r) ==
    LET q == reqs[r] IN
    /\ q.pc = "call"
    /\ ~HasNextCall(q)
    /\ reqs' = [reqs EXCEPT ![r].response = ErrorResponse(q.source, "internal error"),
                            ![r].pc = "done"]
    /\ UNCHANGED <<clientVars, EIA_API_KEY, FRED_API_KEY, cache, now, ticks, received>>

\* Time passes between the handler's runs: a run reads one clock value, and
\* an outbound call settles at the clock value it was issued at, or never
Tick ==
    /\ ticks < MaxTicks
    /\ \A r \in RequestIds : reqs[r].pc \notin {"call", "fetch"}
    /\ now' = now + TimeSteps[(ticks % Len(TimeSteps)) + 1]
    /\ ticks' = ticks + 1
    /\ UNCHANGED <<clientVars, EIA_API_KEY, FRED_API_KEY, cache, reqs, received>>

Next ==
    \/ \E r \in RequestIds, source \in Sources \cup {UnknownSource} : Receive(r, source)
    \/ \E r \in RequestIds : AdapterBegin(r)
    \/ \E r \in RequestIds, resp \in PriceResponses \cup OwidResponses : FetchComplete(r, resp)
    \/ \E r \in RequestIds : FetchHang(r)
    \/ \E r \in RequestIds : Respond(r)
    \/ \E r \in RequestIds : HandlerThrow(r)
    \/ Tick

Spec == Init /\ [][Next]_vars

\* The event loop runs every continuation that is ready and a provider that
\* answers does answer: each handler step that stays enabled is taken.  No
\* fairness is assumed for arrivals, exceptions, hangs or the clock.
LiveSpec ==
    /\ Init
    /\ [][Next]_vars
    /\ \A r \in RequestIds :
         /\ WF_vars(AdapterBegin(r))
         /\ WF_vars(\E resp \in PriceResponses \cup OwidResponses : FetchComplete(r, resp))
         /\ WF_vars(Respond(r))

----------------------------------------------------------------------------
(* The browser script: one action per event handler or continuation *)

\* fetches counts the fetchEnergyData calls started, and for each commodity
\* those still awaiting their answer.  alerted is the dialog on screen: the
\* script runs nothing else until it is dismissed.

\* A source card is clicked: currentSource is set and fetchEnergyData runs up
\* to its await of fetch().  resetProjectionValues writes to the page only.
navigateToSource(source) ==
    /\ fetches.started < MaxFetches
    /\ currentSource' = source
    /\ fetches' = [started |-> fetches.started + 1,
                   pending |-> [fetches.pending EXCEPT ![source] = @ + 1]]
    /\ alerted' = ""
    /\ UNCHANGED <<serverVars, currentData, projectionHistory, currentDataSources,
                   isUsingFallback, priceOf>>

\* goBack that also empties the history
goBack_ClearsHistory ==
    /\ currentSource' = NoSource
    /\ alerted' = ""
    /\ projectionHistory' = <<>>
    /\ UNCHANGED <<serverVars, currentData, currentDataSources,
                   isUsingFallback, fetches, priceOf>>

goBack ==
    /\ currentSource' = NoSource
    /\ alerted' = ""
    /\ UNCHANGED <<serverVars, currentData, projectionHistory, currentDataSources,
                   isUsingFallback, fetches, priceOf>>

\* updatePriceDisplay(formattedData) for the body data of a price request
formattedData(data) ==
    [us |-> [price |-> FromWire(data.us.value),
             date |-> formatDateForDisplay(data.us.date),
             source |-> data.us.source],
     world |-> [price |-> FromWire(data.world.value),
                date |-> formatDateForDisplay(data.world.date),
                source |-> data.world.source]]

Settled(source) == [fetches EXCEPT !.pending[source] = @ - 1]

\* A price request for source is answered with the body data (every answer
\* of the server has status 200): the rest of the try block runs
FetchFulfilled(source, data) ==
    /\ fetches.pending[source] > 0
    /\ data \in Quotes(source)
    /\ currentDataSources' = data.dataSources
    /\ isUsingFallback' = data.isFallback
    /\ currentData' = formattedData(data)
    /\ priceOf' = source
    /\ fetches' = Settled(source)
    /\ alerted' = ""
    /\ UNCHANGED <<serverVars, currentSource, projectionHistory>>

\* A price request for source fails (the server is not reachable, or
\* something in front of it answers with an error status): the catch block
\* runs updateWithFallbackData(source)
FetchRejected(source) ==
    /\ fetches.pending[source] > 0
    /\ currentData' = updateWithFallbackData(source)
    /\ priceOf' = source
    /\ fetches' = Settled(source)
    /\ alerted' = ""
    /\ UNCHANGED <<serverVars, currentSource, projectionHistory, currentDataSources,
                   isUsingFallback>>

\* calculateProjection whose price guard also leaves the detail page
calculateProjection_GuardGoesBack(region, input) ==
    /\ IF currentSource = NoSource
       THEN /\ alerted' = "Please select an energy source first."
            /\ UNCHANGED <<projectionHistory, currentSource>>
       ELSE IF Falsy(currentData[region].price)
       THEN /\ alerted' = "Please wait for price data to load."
            /\ currentSource' = NoSource
            /\ UNCHANGED projectionHistory
       ELSE /\ Len(projectionHistory) < MaxProjections
            /\ projectionHistory' = Append(projectionHistory, projectionData(region, input))
            /\ alerted' = ""
            /\ UNCHANGED currentSource
    /\ UNCHANGED <<serverVars, currentData, currentDataSources,
                   isUsingFallback, fetches, priceOf>>

\* The Calculate button of a region, or Enter in its usage field
calculateProjection(region, input) ==
    /\ IF currentSource = NoSource
       THEN /\ alerted' = "Please select an energy source first."
            /\ UNCHANGED projectionHistory
       ELSE IF Falsy(currentData[region].price)
       THEN /\ alerted' = "Please wait for price data to load."
            /\ UNCHANGED projectionHistory
       ELSE /\ Len(projectionHistory) < MaxProjections
            /\ projectionHistory' = Append(projectionHistory, projectionData(region, input))
            /\ alerted' = ""
    /\ UNCHANGED <<serverVars, currentSource, currentData, currentDataSources,
                   isUsingFallback, fetches, priceOf>>

\* The cards the user clicks in a session of the page: a commodity whose two
\* prices have adapters of their own and one priced from the yearly dataset
Visited == {"oil", "solar"}

\* resetProjectionValues leaves 10 in both usage fields
DefaultUsage == 10

\* The page is served by a process that has its credentials: every body the
\* server can send without them it can also send with them
PageInit == Init /\ EIA_API_KEY /\ FRED_API_KEY

ClientNext ==
    \/ \E source \in Visited : navigateToSource(source)
    \/ goBack
    \/ \E source \in Visited, data \in AllQuotes : FetchFulfilled(source, data)
    \/ \E source \in Visited : FetchRejected(source)
    \/ \E region \in Regions : calculateProjection(region, DefaultUsage)

\* The page against a server that answers, with any delay, or does not; the
\* user navigates and calculates with the usage fields as they are
ClientSpec == PageInit /\ [][ClientNext]_vars

\* The page after the user went to a commodity and its price request was
\* answered with the body data, or failed
Loaded(source, data) ==
    /\ currentSource = source
    /\ priceOf = source
    /\ fetches = [started |-> 1, pending |-> [s \in Sources |-> 0]]
    /\ projectionHistory = <<>>
    /\ alerted = ""
    /\ IF data = Null
       THEN /\ currentData = updateWithFallbackData(source)
            /\ currentDataSources = <<>>
            /\ isUsingFallback = FALSE
       ELSE /\ currentData = formattedData(data)
            /\ currentDataSources = data.dataSources
            /\ isUsingFallback = data.isFallback

ProjectionInit ==
    /\ EIA_API_KEY = TRUE
    /\ FRED_API_KEY = TRUE
    /\ cache = [k \in CacheKeys |-> Null]
    /\ now = 0
    /\ ticks = 0
    /\ received = 0
    /\ reqs = [r \in RequestIds |-> Idle]
    /\ \E source \in Sources : \E data \in Quotes(source) \cup {Null} :
           Loaded(source, data)

ProjectionNext ==
    \E region \in Regions, input \in UsageInputs : calculateProjection(region, input)

\* The user fills in the usage fields of a loaded detail page and calculates
ProjectionSpec == ProjectionInit /\ [][ProjectionNext]_vars

----------------------------------------------------------------------------
(* Properties *)

Answered(r) == reqs[r].pc = "done"

\* The response was built by the catch block
OnErrorPath(r) == Answered(r) /\ "error" \in DOMAIN reqs[r].response

\* The response was built at the end of the try block
OnNormalPath(r) == Answered(r) /\ "error" \notin DOMAIN reqs[r].response

AllAbsent(r) ==
    /\ Len(reqs[r].results) = Len(Calls(reqs[r].source))
    /\ \A i \in 1..Len(reqs[r].results) : reqs[r].results[i] = Null

LastResult(q) == q.results[Len(q.results)]

\* C1: for each of the six commodity keys and every combination of adapter
\* outcomes, the quote's us and world PricePoints are non-null and their
\* value is a number greater than 0.
C1_QuotePricesPositive ==
    \A r \in RequestIds :
        (Answered(r) /\ reqs[r].source \in Sources) =>
            /\ reqs[r].response.us # Null
            /\ reqs[r].response.world # Null
            /\ GreaterThanZero(reqs[r].response.us.value)
            /\ GreaterThanZero(reqs[r].response.world.value)

\* C2: if every adapter consulted for a commodity key returned absent, the
\* quote has isFallback = true and us.value, world.value are exactly the
\* Fallback Table's entries for that key.
C2_AllAbsentGivesFallbackTable ==
    \A r \in RequestIds :
        (Answered(r) /\ reqs[r].source \in Sources /\ AllAbsent(r)) =>
            /\ reqs[r].response.isFallback = TRUE
            /\ reqs[r].response.us.value = fallbackPrices[reqs[r].source].us
            /\ reqs[r].response.world.value = fallbackPrices[reqs[r].source].world

C2_Witness ==
    \E r \in RequestIds :
        /\ OnNormalPath(r)
        /\ reqs[r].source = "coal"
        /\ AllAbsent(r)
        /\ reqs[r].response.us.value = 1400000

OilAllAbsent(r) == Answered(r) /\ reqs[r].source = "oil" /\ AllAbsent(r)

\* C3 (as claimed): when EIA PET.RWTC.D, Yahoo CL=F and Yahoo BZ=F all return
\* absent, the oil quote is us = {74.50, "Fallback"}, world = {78.80,
\* "Fallback"}, isFallback = true.
C3_OilAllAbsentLabelledFallback ==
    \A r \in RequestIds :
        OilAllAbsent(r) =>
            /\ reqs[r].response.us.value = 745000
            /\ reqs[r].response.us.source = "Fallback"
            /\ reqs[r].response.world.value = 788000
            /\ reqs[r].response.world.source = "Fallback"
            /\ reqs[r].response.isFallback = TRUE

\* C3 (amended): in that case the oil quote has us.value 74.50, world.value
\* 78.80 and isFallback = true; both PricePoints carry the source label
\* "Estimated (API keys not configured)" when the handler completes normally
\* and "Fallback" only when the body is built by the handler's catch block.
C3_OilAllAbsentLabelByPath ==
    \A r \in RequestIds :
        OilAllAbsent(r) =>
            LET label == IF OnErrorPath(r) THEN "Fallback"
                         ELSE "Estimated (API keys not configured)"
            IN /\ reqs[r].response.us.value = 745000
               /\ reqs[r].response.us.source = label
               /\ reqs[r].response.world.value = 788000
               /\ reqs[r].response.world.source = label
               /\ reqs[r].response.isFallback = TRUE

C3_Witness ==
    \E r \in RequestIds :
        /\ OilAllAbsent(r)
        /\ OnNormalPath(r)
        /\ reqs[r].response.us.source = "Estimated (API keys not configured)"

\* C4: every request to GET /api/prices/:source eventually receives a
\* response, whatever the providers do, including an outbound call that
\* never completes.
C4_EveryRequestAnswered ==
    \A r \in RequestIds :
        (reqs[r].pc \in {"call", "fetch", "hung"}) ~> Answered(r)

\* C5: no adapter raises to its caller: when the outbound call fails
\* (network failure, malformed body, empty result set) the adapter returns
\* absent and the handler goes on with its try block, so no response is
\* the catch block's answer to an adapter error.
C5_AdaptersNeverRaise ==
    /\ [][\A r \in RequestIds, resp \in PriceResponses \cup OwidResponses :
            FetchComplete(r, resp) =>
                /\ reqs'[r].pc = "call"
                /\ Len(reqs'[r].results) = Len(reqs[r].results) + 1
                /\ resp.kind \in {"neterr", "malformed", "empty"} =>
                       LastResult(reqs'[r]) = Null]_vars
    /\ [](\A r \in RequestIds :
            OnErrorPath(r) => reqs[r].response.error # "adapter error")

\* A solar request answered on the normal path although its only adapter,
\* which needs no credential, came back absent from its outbound call
C5_Witness ==
    \E r \in RequestIds :
        /\ OnNormalPath(r)
        /\ reqs[r].source = "solar"
        /\ reqs[r].results = <<Null>>

\* C6: a request that hits an internal error is still answered 200, with us
\* and world filled from the Fallback Table entry of the requested key, the
\* table's units, isFallback = true and an error field; no response is
\* non-2xx.
C6_ErrorPathAnswers200 ==
    \A r \in RequestIds :
        /\ Answered(r) => reqs[r].response.status \in 200..299
        /\ (OnErrorPath(r) /\ reqs[r].source \in Sources) =>
             LET entry == fallbackPrices[reqs[r].source]
                 body == reqs[r].response
             IN /\ body.status = 200
                /\ body.us.value = entry.us
                /\ body.world.value = entry.world
                /\ body.units = [us |-> entry.usUnit, world |-> entry.worldUnit]
                /\ body.isFallback = TRUE
                /\ body.error = "internal error"

C6_Witness ==
    \E r \in RequestIds :
        /\ OnErrorPath(r)
        /\ reqs[r].source = "natural-gas"
        /\ reqs[r].response.us.value = 31500
        /\ \E i \in 1..Len(reqs[r].results) : reqs[r].results[i] # Null

Awaiting(r) == reqs[r].pc = "fetch"

KeyIs(q, adapter, id) == CurrentCall(q).adapter = adapter /\ CurrentCall(q).id = id

\* The entry under key is eligible for reuse: it exists and is younger than
\* five minutes
Fresh(key) == cache[key] # Null /\ now - cache[key].timestamp < 5 * 60 * 1000

\* The entry under key exists and is five minutes old or older
Expired(key) == cache[key] # Null /\ now - cache[key].timestamp >= 5 * 60 * 1000

\* C7 (as claimed): two calls of the same adapter with the same series or
\* symbol id within the 5-minute TTL issue at most one outbound call: no two
\* outbound calls for one key are issued less than a TTL apart.
C7_OneOutboundCallPerTTL ==
    \A r1, r2 \in RequestIds :
        (r1 # r2 /\ Awaiting(r1) /\ Awaiting(r2)
         /\ CurrentKey(reqs[r1]) = CurrentKey(reqs[r2])
         /\ reqs[r1].issuedAt <= reqs[r2].issuedAt)
        => reqs[r2].issuedAt - reqs[r1].issuedAt >= 5 * 60 * 1000

\* C7 (amended): once a call has stored a result for a key, a call of the
\* same adapter with the same id that begins less than the TTL after that
\* store issues no outbound call and returns the stored payload.  (Two calls
\* within the TTL both go out when the first one failed or had not completed
\* when the second began.)
C7_FreshEntryServesCall ==
    [][\A r \in RequestIds :
        (AdapterBegin(r) /\ Fresh(CurrentKey(reqs[r]))) =>
            /\ reqs'[r].pc = "call"
            /\ reqs'[r].issuedAt = Never
            /\ LastResult(reqs'[r]) = cache[CurrentKey(reqs[r])].data]_vars

\* An adapter has just returned a record stored at an earlier time: the
\* clock does not advance between the return and this state, so the record
\* was taken from the cache
C7_Witness ==
    \E r \in RequestIds :
        /\ reqs[r].pc = "call"
        /\ reqs[r].results # <<>>
        /\ LastResult(reqs[r]) # Null
        /\ LET c == Calls(reqs[r].source)[Len(reqs[r].results)]
               entry == cache[CacheKey(c.adapter, c.id)]
           IN /\ entry # Null
              /\ entry.timestamp < now
              /\ now - entry.timestamp < CACHE_TTL
              /\ entry.data = LastResult(reqs[r])

\* C8: after an adapter stored a result for a key, a call of the same
\* adapter for the same key made once the TTL has elapsed issues a new
\* outbound call, and on success overwrites the entry with the new payload
\* and a new storedAt.
C8_ExpiredEntryRefetched ==
    /\ [][\A r \in RequestIds :
            (AdapterBegin(r) /\ Expired(CurrentKey(reqs[r]))) =>
                /\ reqs'[r].pc = "fetch"
                /\ reqs'[r].issuedAt = now]_vars
    /\ [][\A r \in RequestIds, resp \in PriceResponses \cup OwidResponses :
            (FetchComplete(r, resp) /\ cache[CurrentKey(reqs[r])] # Null
             /\ LastResult(reqs'[r]) # Null) =>
                cache'[CurrentKey(reqs[r])] =
                    [data |-> LastResult(reqs'[r]), timestamp |-> now]]_vars

\* An outbound call is in flight for a key whose entry had expired when the
\* call began (the entry is still the old one)
C8_Witness ==
    \E r \in RequestIds :
        /\ reqs[r].pc = "fetch"
        /\ cache[CurrentKey(reqs[r])] # Null
        /\ reqs[r].issuedAt - cache[CurrentKey(reqs[r])].timestamp >= CACHE_TTL

\* C9: getCached(key) returns the stored payload if and only if an entry
\* exists for key and now - storedAt < 5 minutes, and returns absent
\* otherwise; the lookup an adapter makes changes no cache entry, and no
\* step of the program removes one.
C9_GetCachedLazyExpiry ==
    /\ [](\A k \in CacheKeys :
            /\ Fresh(k) => getCached(k) = cache[k].data
            /\ ~Fresh(k) => getCached(k) = Null)
    /\ [][\A r \in RequestIds : AdapterBegin(r) => cache' = cache]_vars
    /\ [][\A k \in CacheKeys : cache[k] # Null => cache'[k] # Null]_vars

\* An entry that is exactly five minutes old: still stored, no longer served
C9_Witness ==
    \E k \in CacheKeys :
        /\ cache[k] # Null
        /\ now - cache[k].timestamp = 300000
        /\ getCached(k) = Null
        /\ \E r \in RequestIds :
             /\ Awaiting(r)
             /\ CurrentKey(reqs[r]) = k
             /\ reqs[r].issuedAt = now

NoCredential(q) ==
    \/ CurrentCall(q).adapter = "eia" /\ ~EIA_API_KEY
    \/ CurrentCall(q).adapter = "fred" /\ ~FRED_API_KEY

\* C10: an EIA or FRED adapter whose credential is not configured returns
\* absent immediately and issues no outbound call, for every series id and
\* every cache state.
C10_NoCredentialNoCall ==
    /\ [][\A r \in RequestIds :
            (AdapterBegin(r) /\ NoCredential(reqs[r])) =>
                /\ reqs'[r].pc = "call"
                /\ LastResult(reqs'[r]) = Null
                /\ cache' = cache]_vars
    /\ [](\A r \in RequestIds : Awaiting(r) => ~NoCredential(reqs[r]))

\* A nuclear request whose FRED call came back absent without a credential
\* although its OWID call had returned a record
C10_Witness ==
    \E r \in RequestIds :
        /\ ~FRED_API_KEY
        /\ reqs[r].source = "nuclear"
        /\ Len(reqs[r].results) = 2
        /\ reqs[r].results[1] # Null
        /\ reqs[r].results[2] = Null

\* The source labels a PricePoint carries when it was filled from the
\* Fallback Table (try block, catch block)
FallbackLabels == {"Estimated (API keys not configured)", "Fallback"}

FromFallback(point) == point.source \in FallbackLabels

\* C11: in every returned quote isFallback is true if and only if both the us
\* slot and the world slot were filled from the Fallback Table; with exactly
\* one slot from a live adapter it is false.
C11_IsFallbackIffBothSlots ==
    \A r \in RequestIds :
        Answered(r) =>
            (reqs[r].response.isFallback = TRUE
                <=> (FromFallback(reqs[r].response.us)
                     /\ FromFallback(reqs[r].response.world)))

\* An oil quote whose us slot is live and whose world slot is the table's
C11_Witness ==
    \E r \in RequestIds :
        /\ OnNormalPath(r)
        /\ reqs[r].source = "oil"
        /\ ~FromFallback(reqs[r].response.us)
        /\ FromFallback(reqs[r].response.world)
        /\ reqs[r].response.world.value = 788000
        /\ reqs[r].response.isFallback = FALSE

\* The commodities whose us slot has two adapters: EIA first, then Yahoo
TwoAdapterUS == {"oil", "natural-gas"}

\* C12: within a slot the adapters are tried in priority order and the first
\* success short-circuits the rest: once the EIA adapter of the us slot of
\* oil or natural gas has returned a record, the Yahoo adapter of that slot
\* is not called.
C12_FirstSuccessShortCircuits ==
    [][\A r \in RequestIds :
          (/\ reqs[r].source \in TwoAdapterUS
           /\ Len(reqs[r].results) = 1
           /\ reqs[r].results[1] # Null)
          => ~AdapterBegin(r)]_vars

\* The label each adapter's records carry and the handler pushes for the
\* us slot of oil and natural gas
AdapterLabel(adapter) ==
    CASE adapter = "eia" -> "EIA"
      [] adapter = "yahoo" -> "Yahoo Finance"
      [] adapter = "fred" -> "FRED"
      [] adapter = "owid" -> "Our World in Data"

\* C13: in a quote for oil or natural gas that the handler completed, the us
\* PricePoint is the result of the first of EIA, Yahoo that returned a
\* record, and the first dataSources label is that adapter's label; the
\* Yahoo result is never used when the EIA result is available.
C13_FirstInPriorityIsUsed ==
    \A r \in RequestIds :
        (OnNormalPath(r) /\ reqs[r].source \in TwoAdapterUS) =>
            LET res == reqs[r].results
                out == reqs[r].response
            IN /\ res[1] # Null =>
                    /\ out.us = PricePoint(res[1].value, res[1].date, "EIA")
                    /\ res[1].source = AdapterLabel("eia")
                    /\ out.dataSources[1] = "EIA"
               /\ (res[1] = Null /\ res[2] # Null) =>
                    /\ out.us = PricePoint(res[2].value, res[2].date, "Yahoo Finance")
                    /\ res[2].source = AdapterLabel("yahoo")
                    /\ out.dataSources[1] = "Yahoo Finance"

\* Both adapters of the us slot of oil returned a record and EIA's is used
C13_Witness ==
    \E r \in RequestIds :
        /\ OnNormalPath(r)
        /\ reqs[r].source = "oil"
        /\ reqs[r].results[1] # Null
        /\ reqs[r].results[2] # Null
        /\ reqs[r].response.us.source = "EIA"
        /\ reqs[r].response.dataSources[1] = "EIA"

\* label names the provider of one of the two PricePoints of the quote out
\* (the Brent quote is listed with its benchmark's name)
Contributed(label, out) ==
    \/ label = out.us.source
    \/ label = out.world.source
    \/ label = "Yahoo Finance (Brent)" /\ out.world.source = "Yahoo Finance"

\* C14: in every returned quote dataSources names only sources that
\* contributed a price: every label in it is the source of the us or of the
\* world PricePoint, and it is <<"Fallback estimates">> exactly when both
\* slots came from the Fallback Table.
C14_DataSourcesContributed ==
    \A r \in RequestIds :
        Answered(r) =>
            LET out == reqs[r].response
            IN /\ (out.dataSources = <<"Fallback estimates">>
                     <=> (FromFallback(out.us) /\ FromFallback(out.world)))
               /\ out.dataSources # <<"Fallback estimates">> =>
                    \A i \in 1..Len(out.dataSources) :
                        Contributed(out.dataSources[i], out)

\* The adapters of the us slot of natural gas (Henry Hub spot and future)
GasUSKeys == {CacheKey("eia", "NG.RNGWHHD.D"), CacheKey("yahoo", "NG=F")}

\* C15: for natural gas, whenever the us slot of the quote is resolved by an
\* adapter the world value is 3.5 times the us value (NaN when the us value
\* is not a number), and the request makes no adapter call other than those
\* of the us slot.
C15_GasWorldIsDerived ==
    \A r \in RequestIds :
        reqs[r].source = "natural-gas" =>
            /\ Len(reqs[r].results) <= 2
            /\ reqs[r].pc \in {"call", "fetch"} /\ HasNextCall(reqs[r])
                 => CurrentKey(reqs[r]) \in GasUSKeys
            /\ (Answered(r) /\ ~FromFallback(reqs[r].response.us)) =>
                 LET out == reqs[r].response
                 IN IF IsNumber(out.us.value)
                    THEN out.world.value * 10 = out.us.value * 35
                    ELSE out.world.value = NaN

\* A natural-gas quote with a live us price of 70 and world price of 245
C15_Witness ==
    \E r \in RequestIds :
        /\ Answered(r)
        /\ reqs[r].source = "natural-gas"
        /\ reqs[r].response.us.source \in {"EIA", "Yahoo Finance"}
        /\ reqs[r].response.us.value = 700000
        /\ reqs[r].response.world.value = 2450000

\* The commodities whose world price is computed from the US price, and the
\* multiplier of each as <<numerator, denominator>>
DerivedWorld == {"natural-gas", "nuclear", "solar", "renewables"}

Multiplier(source) ==
    CASE source = "natural-gas" -> <<35, 10>>
      [] source = "nuclear" -> <<11, 10>>
      [] source = "solar" -> <<115, 100>>
      [] source = "renewables" -> <<115, 100>>

\* C16: for natural gas, nuclear, solar and renewables, whenever the us slot
\* is resolved the world PricePoint has the us value times the commodity's
\* multiplier, the us date, and the source label "Calculated from US price".
C16_DerivedWorldLabelled ==
    \A r \in RequestIds :
        (/\ Answered(r)
         /\ reqs[r].source \in DerivedWorld
         /\ ~FromFallback(reqs[r].response.us)) =>
            LET out == reqs[r].response
                m == Multiplier(reqs[r].source)
            IN /\ IF IsNumber(out.us.value)
                  THEN out.world.value * m[2] = out.us.value * m[1]
                  ELSE out.world.value = NaN
               /\ out.world.date = out.us.date
               /\ out.world.source = "Calculated from US price"

\* C17: in every returned quote for one of the six commodities, on the normal
\* path and on the error path, units.us and units.world are the Fallback
\* Table's usUnit and worldUnit of the requested commodity, whatever the
\* providers returned.
C17_UnitsFromFallbackTable ==
    \A r \in RequestIds :
        (Answered(r) /\ reqs[r].source \in Sources) =>
            /\ reqs[r].response.units.us = fallbackPrices[reqs[r].source].usUnit
            /\ reqs[r].response.units.world = fallbackPrices[reqs[r].source].worldUnit

\* A coal quote with both prices live, in short tons and metric tons
C17_Witness ==
    \E r \in RequestIds :
        /\ OnNormalPath(r)
        /\ reqs[r].source = "coal"
        /\ ~FromFallback(reqs[r].response.us)
        /\ ~FromFallback(reqs[r].response.world)
        /\ reqs[r].response.units = [us |-> "/short ton", world |-> "/metric ton"]

Returns(r) == Len(reqs'[r].results) = Len(reqs[r].results) + 1

\* C19: a cache entry is created or overwritten only by an adapter call for
\* its key that returns a record, which is the data stored; an adapter call
\* that returns absent leaves every entry unchanged; no step deletes an
\* entry.
C19_OnlySuccessWritesCache ==
    [][/\ \A k \in CacheKeys :
             cache'[k] # cache[k] =>
                 /\ cache'[k] # Null
                 /\ \E r \in RequestIds :
                        /\ Awaiting(r)
                        /\ CurrentKey(reqs[r]) = k
                        /\ Returns(r)
                        /\ LastResult(reqs'[r]) # Null
                        /\ cache'[k].data = LastResult(reqs'[r])
       /\ \A r \in RequestIds :
             (Returns(r) /\ LastResult(reqs'[r]) = Null) => cache' = cache
       /\ \A k \in CacheKeys : cache[k] # Null => cache'[k] # Null]_vars

\* An oil request whose EIA call stored a record and whose next call, to
\* Yahoo, went out and ended absent: the first entry stands, no second one
C19_Witness ==
    \E r \in RequestIds :
        /\ reqs[r].source = "oil"
        /\ Len(reqs[r].results) = 2
        /\ reqs[r].results[1] # Null
        /\ reqs[r].results[2] = Null
        /\ cache[CacheKey("eia", "PET.RWTC.D")] # Null
        /\ cache[CacheKey("eia", "PET.RWTC.D")].data = reqs[r].results[1]
        /\ cache[CacheKey("yahoo", "CL=F")] = Null

\* The fields of a complete record of each adapter
RecordFields(adapter) ==
    IF adapter = "owid"
    THEN {"solar_lcoe", "wind_lcoe", "nuclear_lcoe", "date", "source", "series"}
    ELSE {"value", "date", "source", "series"}

\* record is a whole record built by adapter from the provider's answer
\* about id
ProducedBy(record, adapter, id) ==
    /\ DOMAIN record = RecordFields(adapter)
    /\ record.source = AdapterLabel(adapter)
    /\ record.series = id

\* C20: under every interleaving of concurrent requests, each cache entry
\* holds a complete record built by its key's provider for its key's series,
\* and every record an adapter call returned was built by that call's
\* provider for that call's series, never one stored under another key.
C20_CacheEntriesMatchTheirKey ==
    /\ \A k \in CacheKeys :
           cache[k] # Null =>
               /\ DOMAIN cache[k] = {"data", "timestamp"}
               /\ ProducedBy(cache[k].data, k[1], k[2])
    /\ \A r \in RequestIds :
           \A i \in 1..Len(reqs[r].results) :
               reqs[r].results[i] # Null =>
                   ProducedBy(reqs[r].results[i],
                              Calls(reqs[r].source)[i].adapter,
                              Calls(reqs[r].source)[i].id)

\* Two oil requests in progress at once, the WTI and the Brent quote of
\* Yahoo both cached, both returned to one request and the WTI quote to the
\* other
C20_Witness ==
    \E r1, r2 \in RequestIds :
        /\ r1 # r2
        /\ reqs[r1].source = "oil" /\ reqs[r2].source = "oil"
        /\ reqs[r1].pc = "call" /\ reqs[r2].pc \in {"call", "fetch"}
        /\ Len(reqs[r1].results) = 3 /\ Len(reqs[r2].results) = 2
        /\ reqs[r1].results[2] # Null /\ reqs[r1].results[3] # Null
        /\ reqs[r2].results[2] # Null
        /\ cache[CacheKey("yahoo", "CL=F")] # Null
        /\ cache[CacheKey("yahoo", "BZ=F")] # Null
        /\ cache[CacheKey("yahoo", "CL=F")].data.series = "CL=F"
        /\ cache[CacheKey("yahoo", "BZ=F")].data.series = "BZ=F"

\* The commodities whose two slots have adapters of their own
IndependentSlots == {"oil", "coal"}

\* The result of the first adapter of the us slot, of the world slot, that
\* returned a record; Null when all of them returned absent
UsResolvedBy(source, res) ==
    IF source = "oil"
    THEN IF res[1] # Null THEN res[1] ELSE res[2]
    ELSE res[1]

WorldResolvedBy(source, res) == IF source = "oil" THEN res[3] ELSE res[2]

TableFill(value) == PricePoint(value, "today", "Estimated (API keys not configured)")

\* C21: in a quote for oil or coal that the handler completed, a slot whose
\* adapters all returned absent holds the Fallback Table's price of that
\* commodity, and a slot an adapter resolved holds that adapter's value, date
\* and source, whatever happened to the other slot.
C21_SlotsFilledIndependently ==
    \A r \in RequestIds :
        (OnNormalPath(r) /\ reqs[r].source \in IndependentSlots) =>
            LET src == reqs[r].source
                out == reqs[r].response
                u == UsResolvedBy(src, reqs[r].results)
                w == WorldResolvedBy(src, reqs[r].results)
            IN /\ out.us = IF u = Null THEN TableFill(fallbackPrices[src].us)
                           ELSE PricePoint(u.value, u.date, u.source)
               /\ out.world = IF w = Null THEN TableFill(fallbackPrices[src].world)
                              ELSE PricePoint(w.value, w.date, w.source)

\* A coal quote: no EIA record, so 140.00 from the table in the us slot,
\* and Yahoo's 70 in the world slot
C21_Witness ==
    \E r \in RequestIds :
        /\ OnNormalPath(r)
        /\ reqs[r].source = "coal"
        /\ reqs[r].results[1] = Null
        /\ reqs[r].results[2] # Null
        /\ reqs[r].response.us = TableFill(1400000)
        /\ reqs[r].response.world = PricePoint(700000, "today", "Yahoo Finance")

\* The dataset's field and the result's field of each technology
Technologies ==
    {<<"solar_electricity", "solar_lcoe">>, <<"wind_electricity", "wind_lcoe">>,
     <<"nuclear_electricity", "nuclear_lcoe">>}

\* The years of the series usa that have a figure for the dataset field
YearsWithData(usa, field) == {y \in DOMAIN usa : IsNumber(usa[y][field])}

MostRecent(years) == CHOOSE y \in years : \A z \in years : z <= y

\* C22: the record the Our World in Data adapter builds from a dataset holds,
\* for each technology, the figure of the most recent year that has one;
\* for a technology the dataset has no figure for, the adapter returns no
\* record or a record without a value for it.
C22_OwidLatestYearWithData ==
    [][\A r \in RequestIds : \A resp \in OwidResponses :
          (/\ Awaiting(r)
           /\ CurrentCall(reqs[r]).adapter = "owid"
           /\ resp.kind = "data"
           /\ FetchComplete(r, resp))
          => LET rec == LastResult(reqs'[r])
             IN \A t \in Technologies :
                    LET years == YearsWithData(resp.USA, t[1])
                    IN IF years # {}
                       THEN rec # Null
                            /\ rec[t[2]] = resp.USA[MostRecent(years)][t[1]]
                       ELSE rec = Null \/ ~IsNumber(rec[t[2]])]_vars

\* C30: in every returned quote for natural gas, nuclear, solar or
\* renewables the two slots are resolved together: both are live or both are
\* the Fallback Table's (the world value then being the table's, not one
\* derived from the table's US value), and isFallback is true exactly when
\* the us slot was not resolved.
C30_DerivedSlotsResolvedTogether ==
    \A r \in RequestIds :
        (Answered(r) /\ reqs[r].source \in DerivedWorld) =>
            LET out == reqs[r].response
            IN /\ FromFallback(out.us) <=> FromFallback(out.world)
               /\ out.isFallback = TRUE <=> FromFallback(out.us)
               /\ FromFallback(out.us) =>
                    /\ out.us.value = fallbackPrices[reqs[r].source].us
                    /\ out.world.value = fallbackPrices[reqs[r].source].world

\* A natural-gas quote the handler completed with no adapter record: 3.15
\* and 12.40 from the table
C30_Witness ==
    \E r \in RequestIds :
        /\ OnNormalPath(r)
        /\ reqs[r].source = "natural-gas"
        /\ AllAbsent(r)
        /\ reqs[r].response.us.value = 31500
        /\ reqs[r].response.world.value = 124000
        /\ reqs[r].response.isFallback = TRUE

\* The commodity a recorded projection names
KeyOf(fullName) == CHOOSE s \in Sources : CONFIG[s].fullName = fullName

Recorded == {projectionHistory[i] : i \in 1..Len(projectionHistory)}

\* The number a * b / c (c > 0) as the fraction in lowest terms
Quotient(a, b, c) ==
    LET g1 == GCD(Abs(a), c)
        g2 == GCD(Abs(b), c \div g1)
    IN [n |-> (a \div g1) * (b \div g2), d |-> (c \div g1) \div g2]

\* C23: every recorded projection has priceIncrease equal to
\* (usageIncrease / 100) * (1 / elasticity) * factor * 100 for the elasticity
\* and supply-constraint factor of its commodity, and newPrice equal to
\* currentPrice * (1 + priceIncrease / 100); for oil at 74.50 with a usage
\* increase of 10 these are 30 and 96.85.
C23_ProjectionFormula ==
    \A h \in Recorded :
        LET e == CONFIG[KeyOf(h.source)].elasticity
            f == getSupplyConstraintFactor(KeyOf(h.source))
            pct == h.priceIncrease
        IN /\ pct = Quotient(h.usageIncrease, f * 10, e)
           /\ h.newPrice = Quotient(h.currentPrice, 100 * pct.d + pct.n, 100 * pct.d)
           /\ (h.source = "Crude Oil (WTI)" /\ h.currentPrice = 745000
               /\ h.usageIncrease = 10)
                => h.priceIncrease = Whole(30) /\ h.newPrice = Whole(968500)

\* The example: oil at 74.50, usage +10
C23_Witness ==
    \E h \in Recorded :
        /\ h.source = "Crude Oil (WTI)"
        /\ h.currentPrice = 745000
        /\ h.usageIncrease = 10
        /\ h.priceIncrease = Whole(30)
        /\ h.newPrice = Whole(968500)

\* C24: a recorded projection with a usage change of 0 has priceIncrease 0
\* and newPrice equal to currentPrice, for the elasticity and factor of each
\* of the six commodities.
C24_ZeroUsageZeroChange ==
    \A h \in Recorded :
        h.usageIncrease = 0 =>
            /\ h.priceIncrease = Whole(0)
            /\ h.newPrice = Whole(h.currentPrice)

\* A projection for nuclear energy (elasticity 0.15, factor 0.8) with the
\* usage field at 0
C24_Witness ==
    \E h \in Recorded :
        /\ h.source = "Nuclear Energy (Uranium)"
        /\ h.usageIncrease = 0
        /\ h.currentPrice = 310000
        /\ h.newPrice = Whole(310000)

\* C25: for the elasticity and factor of each of the six commodities the
\* recorded priceIncrease has the sign of the usage change: above 0 for a
\* usage increase, below 0 (not clamped to 0) for a usage decrease, and the
\* new price is then above, below the current price.
C25_PriceChangeHasSignOfUsage ==
    \A h \in Recorded :
        /\ h.priceIncrease.d > 0
        /\ h.usageIncrease > 0 => h.priceIncrease.n > 0
        /\ h.usageIncrease < 0 => h.priceIncrease.n < 0
        /\ (h.usageIncrease < 0 /\ h.currentPrice > 0)
             => h.newPrice.n < h.currentPrice * h.newPrice.d

\* Coal with usage -10: the price change is -200/7 percent (-28.57)
C25_Witness ==
    \E h \in Recorded :
        /\ h.source = "Thermal Coal"
        /\ h.usageIncrease = -10
        /\ h.priceIncrease = [n |-> -200, d |-> 7]
        /\ h.newPrice.n < h.currentPrice * h.newPrice.d

\* calculateProjection(region) passes its two guards in the current state
PassesGuards(region) ==
    currentSource # NoSource /\ ~Falsy(currentData[region].price)

C27_GuardedOutCallChangesNothing ==
    [][\A region \in Regions :
          (calculateProjection(region, DefaultUsage) /\ ~PassesGuards(region)) =>
              /\ alerted' = (IF currentSource = NoSource
                             THEN "Please select an energy source first."
                             ELSE "Please wait for price data to load.")
              /\ UNCHANGED <<projectionHistory, currentSource, currentData,
                             currentDataSources, isUsingFallback>>]_vars

\* The price request was answered with a US price without a value, and
\* calculating for the US was refused
C27_Witness ==
    /\ alerted = "Please wait for price data to load."
    /\ currentSource # NoSource
    /\ priceOf = currentSource
    /\ currentData.us.price = Undefined
    /\ projectionHistory = <<>>

\* C28: under every interleaving of navigateToSource, goBack, completions of
\* price requests and calculateProjection, a projection that is computed
\* uses a price that was fetched, or fallback-filled, for the commodity that
\* is currentSource at that moment.
C28_PriceIsOfCurrentSource ==
    [][\A region \in Regions :
          (calculateProjection(region, DefaultUsage) /\ PassesGuards(region))
          => priceOf = currentSource]_vars

\* C29: a recorded projection has isLiveData true only if the price it used
\* came from a live adapter: when that price is a fallback estimate (the
\* server's, of that slot, or the script's own table) isLiveData is false.
C29_LiveFlagMeansLivePrice ==
    \A h \in Recorded :
        h.isLiveData = TRUE => h.priceSource \notin FallbackLabels

====
